---------------------------- MODULE Spec2Model ----------------------------
(***************************************************************************)
(* A model of the two programs of the Droughts repository:                 *)
(*                                                                         *)
(*   preprocess.py            the raster Preprocessor, a one-shot script   *)
(*   src/models/rcnn_module.py  RCNNModule, the recurrent forecasting model *)
(*                                                                         *)
(* The two programs never run together; Spec is a run of the Preprocessor  *)
(* and SpecRCNN is a life of one RCNNModule instance.                       *)
(*                                                                         *)
(* Numbers that numpy holds as floats are held here as exact rationals     *)
(* [num, den]; tensors of the model are held as their shape plus the       *)
(* number of recurrence updates that separate them from the zero state.    *)
(***************************************************************************)
EXTENDS Integers, Sequences, FiniteSets, TLC

VARIABLES
    \* ---- preprocess.py ----
    pc,             \* position of the script
    region,         \* args.region
    feature,        \* args.band
    endyear,        \* args.endyear
    endmonth,       \* args.endmonth
    raw_file,       \* data/raw/{region}_{feature}.tif on disk, or None
    ds,             \* the opened dataset, or None
    num_of_months,
    xsize,
    ysize,
    all_data,       \* the Normalized Array
    curr_month,
    curr_year,
    total_df,       \* the Tabular Record collection
    band_range,     \* the values the band loop's range has still to yield
    files,          \* the files written under data/preprocessed/, in order
    error,          \* the exception that ended the run, or None
    iters,          \* history: the band index and date label of each iteration
    row_i,          \* history: the band index each row of total_df came from
    \* ---- rcnn_module.py ----
    hparams,        \* the constructor's arguments
    prev_state,     \* self.prev_state, the carried Forecast State
    metric_updates, \* number of updates of train_metric / val_metric / test_metric
    last            \* history: the last step call and how it ended

preVars == <<pc, region, feature, endyear, endmonth, raw_file, ds, num_of_months,
             xsize, ysize, all_data, curr_month, curr_year, total_df, band_range, files,
             error, iters, row_i>>
rcnnVars == <<hparams, prev_state, metric_updates, last>>
vars == <<pc, region, feature, endyear, endmonth, raw_file, ds, num_of_months,
          xsize, ysize, all_data, curr_month, curr_year, total_df, band_range, files,
          error, iters, row_i, hparams, prev_state, metric_updates, last>>

None == "None"

---------------------------------------------------------------------------
(* Bounds of the model *)

MaxBands == 5       \* largest RasterCount tried
MaxSize == 2        \* largest RasterXSize / RasterYSize tried
NumYears == 2       \* number of --endyear values tried
MaxBatch == 2       \* largest batch dimension tried
MaxSteps == 2       \* largest number of recurrence updates of the carried state

---------------------------------------------------------------------------
(* Exact rationals standing for numpy's floats *)

Rat(n) == [num |-> n, den |-> 1]

Zero == Rat(0)

\* a / k for an integer k > 0
RatDiv(a, k) == [num |-> a.num, den |-> a.den * k]

---------------------------------------------------------------------------
(* str() of an integer and the strings built from it *)

Digit(d) ==
    CASE d = 0 -> "0" [] d = 1 -> "1" [] d = 2 -> "2" [] d = 3 -> "3"
      [] d = 4 -> "4" [] d = 5 -> "5" [] d = 6 -> "6" [] d = 7 -> "7"
      [] d = 8 -> "8" [] d = 9 -> "9"

RECURSIVE StrNat(_)
StrNat(n) == IF n < 10 THEN Digit(n) ELSE StrNat(n \div 10) \o Digit(n % 10)

Str(n) == IF n < 0 THEN "-" \o StrNat(-n) ELSE StrNat(n)

\* curr_date = str(curr_year) + "-" + str(curr_month)
DateLabel(year, month) == Str(year) \o "-" \o Str(month)

save_path == "data/preprocessed/"

NpyPath(r, f) == save_path \o r \o "_" \o f \o ".npy"

CsvPath(r, f) == save_path \o r \o "_" \o f \o ".csv"

MeansPath(r, f) == save_path \o r \o "_" \o f \o "_global_means.npy"

StdsPath(r, f) == save_path \o r \o "_" \o f \o "_global_stds.npy"

---------------------------------------------------------------------------
(* The input raster *)

Features == {"pdsi", "spi", "PDSI"}

Seeds == {0, -317}

\* A raster file: RasterCount bands numbered from 1 as GDAL numbers them, each
\* a grid of RasterYSize rows by RasterXSize columns whose cells all differ.
Raster(n, xs, ys, seed) ==
    [RasterCount |-> n, RasterXSize |-> xs, RasterYSize |-> ys,
     bands |-> [b \in 1..n |->
                  [r \in 0..(ys - 1) |->
                     [c \in 0..(xs - 1) |-> Rat(seed + 100 * b + 10 * r + c)]]]]

Rasters ==
    {Raster(n, xs, ys, seed) :
        n \in 1..MaxBands, xs \in 1..MaxSize, ys \in 1..MaxSize, seed \in Seeds}

\* ds.GetRasterBand(i).ReadAsArray()
ReadAsArray(d, b) == d.bands[b]

\* np.zeros((n, 1, ys, xs))
Zeros4(n, ys, xs) ==
    [m \in 0..(n - 1) |->
        [ch \in {0} |-> [r \in 0..(ys - 1) |-> [c \in 0..(xs - 1) |-> Zero]]]]

---------------------------------------------------------------------------
(* preprocess.py, lines 27-40: open the raster, read its metadata, allocate *)

\* range(n - 1, 1, -1) as the sequence of its values
BandRangeToOne(n) == [k \in 1..(IF n - 1 > 0 THEN n - 1 ELSE 0) |-> n - k]

BandRange(n) == [k \in 1..(IF n - 2 > 0 THEN n - 2 ELSE 0) |-> n - k]

Open ==
    /\ pc = "open"
    /\ raw_file # {}
    /\ LET d == CHOOSE r \in raw_file : TRUE
       IN  /\ ds' = d
           /\ num_of_months' = d.RasterCount
           /\ xsize' = d.RasterXSize
           /\ ysize' = d.RasterYSize
           /\ all_data' = Zeros4(d.RasterCount, d.RasterYSize, d.RasterXSize)
           /\ band_range' = BandRange(d.RasterCount)
           /\ pc' = IF BandRange(d.RasterCount) # <<>> THEN "loop" ELSE "save_npy"
    /\ curr_month' = endmonth
    /\ curr_year' = endyear
    /\ total_df' = <<>>
    /\ UNCHANGED <<region, feature, endyear, endmonth, raw_file, files, error,
                   iters, row_i>>
    /\ UNCHANGED rcnnVars

\* gdal.Open finds no raster: the script ends on its first use of ds (line 28)
OpenFails ==
    /\ pc = "open"
    /\ raw_file = {}
    /\ pc' = "aborted"
    /\ error' = "MissingInput"
    /\ UNCHANGED <<region, feature, endyear, endmonth, raw_file, ds, num_of_months,
                   xsize, ysize, all_data, curr_month, curr_year, total_df,
                   band_range, files, iters, row_i>>
    /\ UNCHANGED rcnnVars

---------------------------------------------------------------------------
(* preprocess.py, lines 43-62: one iteration of the band loop *)

RolloverKeepsYear(month, year) ==
    IF month = 0 THEN [month |-> 12, year |-> year]
                 ELSE [month |-> month, year |-> year]

\* lines 44-46: the cursor as it stands after the roll-over test
Rollover(month, year) ==
    IF month = 0 THEN [month |-> 12, year |-> year - 1]
                 ELSE [month |-> month, year |-> year]

NormalizeAnyCase(data, f) ==
    IF f \in {"pdsi", "PDSI"}
    THEN [r \in DOMAIN data |-> [c \in DOMAIN data[r] |-> RatDiv(data[r][c], 100)]]
    ELSE data

\* lines 52-53: data = data / 100 for pdsi only
Normalize(data, f) ==
    IF f = "pdsi"
    THEN [r \in DOMAIN data |-> [c \in DOMAIN data[r] |-> RatDiv(data[r][c], 100)]]
    ELSE data

\* line 58: data[x][y], numpy's IndexError when an index is out of its axis
InBounds(data, x, y) == x \in DOMAIN data /\ y \in DOMAIN data[x]

CellValue(data, x, y) == data[x][y]

\* lines 55-60: for x in range(xsize): for y in range(ysize): append a row.
\* k counts the cells visited; the loops stop at the first IndexError.
RECURSIVE AppendCells(_, _, _, _, _, _)
AppendCells(data, xs, ys, date, k, acc) ==
    IF k >= xs * ys
    THEN [rows |-> acc, raised |-> FALSE]
    ELSE LET x == k \div ys
             y == k % ys
         IN  IF ~InBounds(data, x, y)
             THEN [rows |-> acc, raised |-> TRUE]
             ELSE AppendCells(data, xs, ys, date, k + 1,
                      Append(acc, [date |-> date, x |-> x, y |-> y,
                                   value |-> CellValue(data, x, y)]))

BandIteration ==
    /\ pc = "loop"
    /\ LET b == Head(band_range)
           cur == Rollover(curr_month, curr_year)
           curr_date == DateLabel(cur.year, cur.month)
           data == Normalize(ReadAsArray(ds, b), feature)
           res == AppendCells(data, xsize, ysize, curr_date, 0, <<>>)
       IN  /\ all_data' = [all_data EXCEPT ![b][0] = data]
           /\ total_df' = total_df \o res.rows
           /\ row_i' = row_i \o [k \in 1..Len(res.rows) |-> b]
           /\ iters' = Append(iters, [i |-> b, date |-> curr_date])
           /\ curr_year' = cur.year
           /\ band_range' = Tail(band_range)
           /\ IF res.raised
              THEN /\ curr_month' = cur.month
                   /\ pc' = "aborted"
                   /\ error' = "IndexError"
              ELSE /\ curr_month' = cur.month - 1
                   /\ pc' = IF Tail(band_range) # <<>> THEN "loop" ELSE "save_npy"
                   /\ error' = error
    /\ UNCHANGED <<region, feature, endyear, endmonth, raw_file, ds, num_of_months,
                   xsize, ysize, files>>
    /\ UNCHANGED rcnnVars

---------------------------------------------------------------------------
(* preprocess.py, lines 64-75: the four outputs *)

\* the cells of a (n, 1, ys, xs) array in storage order
Flat(a, n, ys, xs) ==
    [k \in 1..(n * ys * xs) |->
        a[(k - 1) \div (ys * xs)][0][((k - 1) % (ys * xs)) \div xs][(k - 1) % xs]]

RECURSIVE MaxDen(_, _)
MaxDen(s, k) ==
    IF k = 0 THEN 1
    ELSE LET m == MaxDen(s, k - 1) IN IF s[k].den > m THEN s[k].den ELSE m

RECURSIVE SumNum(_, _, _)
SumNum(s, d, k) ==
    IF k = 0 THEN 0 ELSE SumNum(s, d, k - 1) + s[k].num * (d \div s[k].den)

RECURSIVE SumSq(_, _, _)
SumSq(s, d, k) ==
    IF k = 0 THEN 0
    ELSE SumSq(s, d, k - 1) + (s[k].num * (d \div s[k].den)) * (s[k].num * (d \div s[k].den))

\* np.mean(all_data), over the common denominator of the cells
Mean(a, n, ys, xs) ==
    LET s == Flat(a, n, ys, xs)
        d == MaxDen(s, Len(s))
    IN  [num |-> SumNum(s, d, Len(s)), den |-> d * Len(s)]

\* np.std(all_data) is the square root of the population variance, which is
\* held here: mean(|x - mean|^2) = (n * sum(x^2) - sum(x)^2) / n^2
Variance(a, n, ys, xs) ==
    LET s == Flat(a, n, ys, xs)
        d == MaxDen(s, Len(s))
        t == SumNum(s, d, Len(s))
    IN  [num |-> Len(s) * SumSq(s, d, Len(s)) - t * t,
         den |-> (d * Len(s)) * (d * Len(s))]

\* np.zeros((1, 1, 1, 1)) with [0, 0, 0, 0] set to v
Single4(v) == [m \in {0} |-> [ch \in {0} |-> [r \in {0} |-> [c \in {0} |-> v]]]]

\* DataFrame.to_csv: the rows, each behind its row index
ToCsv(df) ==
    [k \in 1..Len(df) |->
        [index |-> k - 1, date |-> df[k].date, x |-> df[k].x, y |-> df[k].y,
         value |-> df[k].value]]

WriteRemovingPartial(path, content, ok, next) ==
    /\ IF ok
       THEN /\ files' = Append(files, [path |-> path, content |-> content])
            /\ pc' = next
            /\ error' = error
       ELSE /\ files' = <<>>
            /\ pc' = "aborted"
            /\ error' = "WriteError"
    /\ UNCHANGED <<region, feature, endyear, endmonth, raw_file, ds, num_of_months,
                   xsize, ysize, all_data, curr_month, curr_year, total_df,
                   band_range, iters, row_i>>
    /\ UNCHANGED rcnnVars

\* A write either succeeds or raises (no output directory, disk full, ...);
\* nothing written earlier is removed.
Write(path, content, ok, next) ==
    /\ IF ok
       THEN /\ files' = Append(files, [path |-> path, content |-> content])
            /\ pc' = next
            /\ error' = error
       ELSE /\ files' = files
            /\ pc' = "aborted"
            /\ error' = "WriteError"
    /\ UNCHANGED <<region, feature, endyear, endmonth, raw_file, ds, num_of_months,
                   xsize, ysize, all_data, curr_month, curr_year, total_df,
                   band_range, iters, row_i>>
    /\ UNCHANGED rcnnVars

\* line 64
SaveNpy ==
    /\ pc = "save_npy"
    /\ \E ok \in BOOLEAN :
          Write(NpyPath(region, feature), [npy |-> all_data], ok, "save_csv")

\* line 65
SaveCsv ==
    /\ pc = "save_csv"
    /\ \E ok \in BOOLEAN :
          Write(CsvPath(region, feature), [csv |-> ToCsv(total_df)], ok, "save_means")

\* lines 66-74
SaveMeans ==
    /\ pc = "save_means"
    /\ \E ok \in BOOLEAN :
          Write(MeansPath(region, feature),
                [npy |-> Single4(Mean(all_data, num_of_months, ysize, xsize))],
                ok, "save_stds")

\* line 75
SaveStds ==
    /\ pc = "save_stds"
    /\ \E ok \in BOOLEAN :
          Write(StdsPath(region, feature),
                [npy |-> Single4([sqrt_of |-> Variance(all_data, num_of_months, ysize, xsize)])],
                ok, "done")

---------------------------------------------------------------------------
(* The Preprocessor's runs *)

EndYears == {2020 + k : k \in 0..(NumYears - 1)}

RCNNIdle ==
    /\ hparams = None
    /\ prev_state = None
    /\ metric_updates = None
    /\ last = None

Init ==
    /\ pc = "open"
    /\ region = "test"
    /\ feature \in Features
    /\ endyear \in EndYears
    /\ endmonth \in 1..12
    /\ raw_file \in {{}} \cup {{r} : r \in Rasters}
    /\ ds = None
    /\ num_of_months = None
    /\ xsize = None
    /\ ysize = None
    /\ all_data = None
    /\ curr_month = None
    /\ curr_year = None
    /\ total_df = <<>>
    /\ band_range = <<>>
    /\ files = <<>>
    /\ error = None
    /\ iters = <<>>
    /\ row_i = <<>>
    /\ RCNNIdle

Next ==
    \/ Open
    \/ OpenFails
    \/ BandIteration
    \/ SaveNpy
    \/ SaveCsv
    \/ SaveMeans
    \/ SaveStds

Spec == Init /\ [][Next]_vars

---------------------------------------------------------------------------
(* rcnn_module.py: shapes of the tensor operations *)

\* a tensor: its shape (batch, channels, hor, ver) and the number of
\* recurrence updates it went through since the all-zero state
Tensor(shape, steps) == [shape |-> shape, steps |-> steps]

Result(shape) == [ok |-> TRUE, shape |-> shape]

Failure == [ok |-> FALSE]

\* ConvBlock(cin, cout, 3): cin channels in, cout channels out, the batch and
\* the spatial dimensions kept
ConvBlock(s, cin, cout) ==
    IF s[2] # cin THEN Failure ELSE Result(<<s[1], cout, s[3], s[4]>>)

\* nn.Conv2d(cin, cout, kernel_size=3, padding=1) and nn.Conv2d(cin, cout,
\* kernel_size=1, padding=0), stride 1: the spatial dimensions are kept
Conv2d(s, cin, cout) ==
    IF s[2] # cin THEN Failure ELSE Result(<<s[1], cout, s[3], s[4]>>)

TorchCatIgnoringBatch(a, b) ==
    IF a[3] = b[3] /\ a[4] = b[4]
    THEN Result(<<a[1], a[2] + b[2], a[3], a[4]>>)
    ELSE Failure

\* torch.cat([a, b], dim=1): every dimension but the channels must agree
TorchCat(a, b) ==
    IF a[1] = b[1] /\ a[3] = b[3] /\ a[4] = b[4]
    THEN Result(<<a[1], a[2] + b[2], a[3], a[4]>>)
    ELSE Failure

\* the shape of an element-wise a * b or a + b under torch's broadcasting
Broadcast(a, b) ==
    IF \A d \in 1..4 : a[d] = b[d] \/ a[d] = 1 \/ b[d] = 1
    THEN Result([d \in 1..4 |-> IF a[d] = 1 THEN b[d] ELSE a[d]])
    ELSE Failure

\* nn.MSELoss()(preds, y): the two tensors are broadcast against each other
MSELoss(preds, y) == Broadcast(preds, y).ok

---------------------------------------------------------------------------
(* RCNNModule.__init__ *)

\* lines 83-94: two zero tensors of shape (batch_size, hid_size, hor, ver)
InitialState(hp) ==
    [c |-> Tensor(<<hp.batch_size, hp.hidden_state_size, hp.n_cells_hor, hp.n_cells_ver>>, 0),
     h |-> Tensor(<<hp.batch_size, hp.hidden_state_size, hp.n_cells_hor, hp.n_cells_ver>>, 0)]

\* lines 98-100: three separate metric instances
InitialMetrics == [train |-> 0, val |-> 0, test |-> 0]

---------------------------------------------------------------------------
(* RCNNModule.forward *)

Raised(err, at) == [ok |-> FALSE, err |-> err, at |-> at]

ReturnedWithPrediction(next_c, next_h, prediction) ==
    [ok |-> TRUE, state |-> [c |-> next_c, h |-> prediction], prediction |-> prediction]

\* line 124: return (next_c, next_h), prediction
Returned(next_c, next_h, prediction) ==
    [ok |-> TRUE, state |-> [c |-> next_c, h |-> next_h], prediction |-> prediction]

\* lines 47-51: self.embedding
Embedding(hp, s) ==
    LET a == ConvBlock(s, 1, hp.embedding_size)
    IN  IF ~a.ok THEN Failure ELSE ConvBlock(a.shape, hp.embedding_size, hp.embedding_size)

\* lines 57-68: each of f_t, i_t, c_t, o_t
Gate(hp, s) ==
    ConvBlock(s, hp.hidden_state_size + hp.embedding_size, hp.hidden_state_size)

\* lines 70-81: self.final_conv
FinalConv(hp, s) ==
    LET a == Conv2d(s, hp.hidden_state_size, hp.hidden_state_size)
    IN  IF ~a.ok THEN Failure ELSE Conv2d(a.shape, hp.hidden_state_size, 1)

\* lines 116-117, from the gates' common shape g
Recurrence(prev_c, g) ==
    LET a == Broadcast(prev_c, g)       \* prev_c * f_i
        b == Broadcast(g, g)            \* i_i * c_i
        c == IF a.ok /\ b.ok THEN Broadcast(a.shape, b.shape) ELSE Failure
        h == IF c.ok THEN Broadcast(c.shape, g) ELSE Failure   \* tanh(next_c) * o_i
    IN  IF c.ok /\ h.ok THEN [ok |-> TRUE, next_c |-> c.shape, next_h |-> h.shape]
        ELSE Failure

\* lines 106-124
Forward(hp, x, state) ==
    LET prev_c == state.c
        prev_h == state.h
        x_emb == Embedding(hp, x)
    IN  IF ~x_emb.ok THEN Raised("RuntimeError", "embedding")
        ELSE
        LET x_and_h == TorchCat(prev_h.shape, x_emb.shape)
        IN  IF ~x_and_h.ok THEN Raised("RuntimeError", "cat")
            ELSE
            LET g == Gate(hp, x_and_h.shape)
            IN  IF ~g.ok THEN Raised("RuntimeError", "gates")
                ELSE
                LET n == Recurrence(prev_c.shape, g.shape)
                IN  IF ~n.ok THEN Raised("RuntimeError", "recurrence")
                    ELSE IF prev_h.shape # n.next_h THEN Raised("AssertionError", "assert_h")
                    ELSE IF prev_c.shape # n.next_c THEN Raised("AssertionError", "assert_c")
                    ELSE
                    LET prediction == FinalConv(hp, n.next_h)
                    IN  IF ~prediction.ok THEN Raised("RuntimeError", "final_conv")
                        ELSE Returned(Tensor(n.next_c, prev_c.steps + 1),
                                      Tensor(n.next_h, prev_h.steps + 1),
                                      Tensor(prediction.shape, prev_h.steps + 1))

---------------------------------------------------------------------------
(* RCNNModule.step and the three phase steps *)

Outcome(state, ok, err, at, fwd) ==
    [state |-> state, ok |-> ok, err |-> err, at |-> at, fwd |-> fwd]

StepLossFirst(hp, x, y, state) ==
    LET r == Forward(hp, x, state)
    IN  IF ~r.ok THEN Outcome(state, FALSE, r.err, r.at, <<>>)
        ELSE IF ~MSELoss(r.prediction.shape, y)
             THEN Outcome(state, FALSE, "RuntimeError", "loss", <<r.state>>)
             ELSE Outcome(r.state, TRUE, None, None, <<r.state>>)

\* lines 127-131: the carried state that step leaves and how the call ends.
\* fwd holds the state forward returned, when it returned.
Step(hp, x, y, state) ==
    LET r == Forward(hp, x, state)
    IN  IF ~r.ok THEN Outcome(state, FALSE, r.err, r.at, <<>>)
        ELSE IF ~MSELoss(r.prediction.shape, y)
             THEN Outcome(r.state, FALSE, "RuntimeError", "loss", <<r.state>>)
             ELSE Outcome(r.state, TRUE, None, None, <<r.state>>)

\* self.train_metric(preds, targets) and its two siblings: one more update of
\* that phase's accumulator, the other two untouched
UpdateMetric(m, phase) == [m EXCEPT ![phase] = @ + 1]

\* the input batches tried: x of every batch size and channel count around
\* the model's, y of the prediction's shape, broadcastable to it, or neither
XShapes == {<<b, c, h, w>> : b \in 1..MaxBatch, c \in {1, 2}, h \in {2, 3}, w \in {2, 3}}

YShapes(hp) == {<<hp.batch_size, 1, hp.n_cells_hor, hp.n_cells_ver>>,
                <<1, 1, 1, 1>>,
                <<hp.batch_size, 1, hp.n_cells_hor + 1, hp.n_cells_ver>>}

\* the body the three phase steps share: self.step(batch), then the update
\* of the phase's own metric when step returned
PhaseStep(phase, x, y) ==
    /\ pc = "idle"
    /\ prev_state.h.steps < MaxSteps
    /\ \E r \in {Step(hparams, x, y, prev_state)} :
          /\ prev_state' = r.state
          /\ metric_updates' = IF r.ok THEN UpdateMetric(metric_updates, phase)
                                       ELSE metric_updates
          /\ last' = [x |-> x, returned |-> r.ok, err |-> r.err, at |-> r.at,
                      before |-> prev_state, fwd |-> r.fwd]
    /\ UNCHANGED hparams
    /\ UNCHANGED preVars

\* lines 133-144
training_step ==
    \E x \in XShapes, y \in YShapes(hparams) : PhaseStep("train", x, y)

\* lines 150-158
validation_step ==
    \E x \in XShapes, y \in YShapes(hparams) : PhaseStep("val", x, y)

\* lines 163-171
test_step ==
    \E x \in XShapes, y \in YShapes(hparams) : PhaseStep("test", x, y)

---------------------------------------------------------------------------
(* The lives of one RCNNModule *)

HParams ==
    [embedding_size : {1, 2}, hidden_state_size : {2, 3}, n_cells_hor : {2, 3},
     n_cells_ver : {2, 3}, batch_size : 1..MaxBatch]

PreIdle ==
    /\ pc = "idle"
    /\ region = None
    /\ feature = None
    /\ endyear = None
    /\ endmonth = None
    /\ raw_file = {}
    /\ ds = None
    /\ num_of_months = None
    /\ xsize = None
    /\ ysize = None
    /\ all_data = None
    /\ curr_month = None
    /\ curr_year = None
    /\ total_df = <<>>
    /\ band_range = <<>>
    /\ files = <<>>
    /\ error = None
    /\ iters = <<>>
    /\ row_i = <<>>

InitRCNN ==
    /\ PreIdle
    /\ hparams \in HParams
    /\ prev_state = InitialState(hparams)
    /\ metric_updates = InitialMetrics
    /\ last = [x |-> <<>>, returned |-> FALSE, err |-> None, at |-> "constructed",
               before |-> InitialState(hparams), fwd |-> <<>>]

NextRCNN ==
    \/ training_step
    \/ validation_step
    \/ test_step

SpecRCNN == InitRCNN /\ [][NextRCNN]_vars

---------------------------------------------------------------------------
(* Claims about the Preprocessor *)

\* the raster was opened: ds, the sizes and all_data hold their values
Opened == pc # "open" /\ error # "MissingInput"

\* the band loop ran to the end of its range
LoopFinished == pc \in {"save_npy", "save_csv", "save_means", "save_stds", "done"}
                \/ (pc = "aborted" /\ error = "WriteError")

\* the number of band indices in N-1, N-2, ..., 2
ProcessedBands(n) == IF n > 2 THEN n - 2 ELSE 0

\* the label of the calendar month k months before year-month
MonthsBefore(year, month, k) ==
    LET t == year * 12 + (month - 1) - k
    IN  DateLabel(t \div 12, (t % 12) + 1)

\* C1: for every band index the loop has processed and every cell of that
\* band, the Normalized Array holds at (i, 0, row, col) the raw value divided
\* by 100 when the variable is exactly "pdsi", and the raw value itself for
\* every other variable name.
C1_PdsiNormalization ==
    \A k \in 1..Len(iters) :
        \A r \in 0..(ysize - 1), c \in 0..(xsize - 1) :
            LET v == ds.bands[iters[k].i][r][c]
                stored == all_data[iters[k].i][0][r][c]
            IN  IF feature = "pdsi"
                THEN stored.num * 100 * v.den = v.num * stored.den
                ELSE stored = v

C1_Witness ==
    /\ pc = "done"
    /\ feature = "pdsi"
    /\ Len(iters) >= 2
    /\ \E r \in 0..(ysize - 1), c \in 0..(xsize - 1) : all_data[2][0][r][c].num # 0

C3_DateCursor ==
    \A k \in 1..Len(iters) : iters[k].date = MonthsBefore(endyear, endmonth, k - 1)

C3_Witness ==
    /\ Len(iters) >= 3
    /\ iters[1].date = DateLabel(endyear, 2)
    /\ iters[2].date = DateLabel(endyear, 1)
    /\ iters[3].date = DateLabel(endyear - 1, 12)

\* C4: every row of the table, with x its column index and y its row index,
\* holds the value the Normalized Array holds for the row's band at (i, 0, y, x).
C4_RowEqualsArrayCell ==
    \A k \in 1..Len(total_df) :
        total_df[k].value = all_data[row_i[k]][0][total_df[k].y][total_df[k].x]

\* C5: for every raster size, square or not, the run gets through the band
\* loop, and the table then holds (N-2) * xsize * ysize rows: the bands in
\* descending order and, within a band, x in the outer and y in the inner loop.
C5_RowCount ==
    /\ error # "IndexError"
    /\ (Opened /\ LoopFinished) =>
          /\ Len(total_df) = ProcessedBands(num_of_months) * xsize * ysize
          /\ \A k \in 1..Len(total_df) :
                /\ row_i[k] = num_of_months - 1 - ((k - 1) \div (xsize * ysize))
                /\ total_df[k].x = ((k - 1) % (xsize * ysize)) \div ysize
                /\ total_df[k].y = (k - 1) % ysize

\* C6: band num_of_months is the month endyear-endmonth, so the rows of band
\* index i carry the label of the month (num_of_months - i) months before
\* endyear-endmonth.
C6_BandDate ==
    \A k \in 1..Len(iters) :
        iters[k].date = MonthsBefore(endyear, endmonth, num_of_months - iters[k].i)

\* the four output paths in the order the script writes them
OutputOrder ==
    << "data/preprocessed/" \o region \o "_" \o feature \o ".npy",
       "data/preprocessed/" \o region \o "_" \o feature \o ".csv",
       "data/preprocessed/" \o region \o "_" \o feature \o "_global_means.npy",
       "data/preprocessed/" \o region \o "_" \o feature \o "_global_stds.npy" >>

FilesInOrder ==
    /\ Len(files) <= 4
    /\ \A k \in 1..Len(files) : files[k].path = OutputOrder[k]
    /\ files # <<>> => (LoopFinished /\ band_range = <<>>)
    /\ error = "MissingInput" => files = <<>>
    /\ pc = "done" => Len(files) = 4

\* C8: no output is written before the band loop has processed every band;
\* the outputs are written in the order .npy, .csv, _global_means.npy,
\* _global_stds.npy, so the written files are always a prefix of that order; a
\* raster that cannot be opened ends the run with nothing written; and no step,
\* a failing one included, removes a file already written.
C8_OutputOrder ==
    /\ []FilesInOrder
    /\ [][Len(files') >= Len(files) /\ SubSeq(files', 1, Len(files)) = files]_vars

C8_Witness ==
    /\ pc = "aborted"
    /\ error = "WriteError"
    /\ Len(files) = 2
    /\ Len(iters) >= 1

---------------------------------------------------------------------------
(* Claims about RCNNModule *)

\* the shape the constructor gives both tensors of the carried state
StateShape ==
    <<hparams.batch_size, hparams.hidden_state_size, hparams.n_cells_hor,
      hparams.n_cells_ver>>

\* the input batch x disagrees with the carried state: another batch size,
\* other spatial dimensions, or a channel count other than the single channel
\* the embedding takes
Disagrees(x, state) ==
    \/ x[1] # state.h.shape[1]
    \/ x[2] # 1
    \/ x[3] # state.h.shape[3]
    \/ x[4] # state.h.shape[4]

\* C7: the carried state is two all-zero tensors of shape (batch_size,
\* hidden_state_size, n_cells_hor, n_cells_ver) at construction; after any
\* sequence of training, validation and test steps both tensors still have
\* that shape, and a step that completes leaves as carried state the pair
\* forward computed from the state carried before, with unchanged shapes.
C7_StateShape ==
    /\ prev_state.c.shape = StateShape
    /\ prev_state.h.shape = StateShape
    /\ last.at = "constructed" => (prev_state.c.steps = 0 /\ prev_state.h.steps = 0)
    /\ last.returned =>
          /\ prev_state = last.fwd[1]
          /\ prev_state.c.shape = last.before.c.shape
          /\ prev_state.h.shape = last.before.h.shape
          /\ prev_state.c.steps = last.before.c.steps + 1
          /\ prev_state.h.steps = last.before.h.steps + 1

C7_Witness ==
    /\ last.returned
    /\ prev_state.h.steps = 2
    /\ metric_updates.train >= 1
    /\ metric_updates.test >= 1

\* C9: when forward returns and the loss computation then raises, the carried
\* state after the failed step is the pair forward returned, not the state
\* carried before the call.
C9_NoRollback ==
    (~last.returned /\ last.at = "loss") =>
        /\ last.fwd # <<>>
        /\ prev_state = last.fwd[1]
        /\ prev_state # last.before
        /\ prev_state.h.steps = last.before.h.steps + 1

C9_Witness ==
    /\ ~last.returned
    /\ last.at = "loss"
    /\ last.before.h.steps = 1
    /\ prev_state.h.steps = 2

\* C10 as first stated: a step whose input disagrees with the carried state
\* ends in an assertion failure of forward's shape checks, returns nothing and
\* does not complete.
C10_AssertionOnMismatch ==
    (last.x # <<>> /\ Disagrees(last.x, last.before)) =>
        /\ ~last.returned
        /\ last.err = "AssertionError"
        /\ last.at \in {"assert_h", "assert_c"}
        /\ last.fwd = <<>>

\* C10: a step whose input disagrees with the carried state ends in a fatal
\* error of the tensor library, raised by the embedding convolution or by the
\* channel concatenation before the shape assertions are reached; forward
\* returns no state pair and no prediction, the step does not complete and the
\* carried state is the one held before the call.
C10_FatalOnMismatch ==
    (last.x # <<>> /\ Disagrees(last.x, last.before)) =>
        /\ ~last.returned
        /\ last.err = "RuntimeError"
        /\ last.at \in {"embedding", "cat"}
        /\ last.fwd = <<>>
        /\ prev_state = last.before

C10_Witness ==
    /\ last.x # <<>>
    /\ Disagrees(last.x, last.before)
    /\ last.x[2] = 1
    /\ last.at = "cat"
    /\ last.before.h.steps >= 1

============================================================================
